---- MODULE Spec2Model ----
(***************************************************************************)
(* Graph rewriting utilities of torch/ao/quantization/pt2e/utils.py:       *)
(* operand resolution, conv+batch-norm weight folding, overload            *)
(* canonicalisation, the dropout match filter and literal-to-placeholder   *)
(* promotion, over an explicit model of a torch.fx graph.                  *)
(***************************************************************************)
EXTENDS Integers, Sequences, FiniteSets, TLC

VARIABLES graph, attrs, in_spec, err, last, calls, inp, out

vars == <<graph, attrs, in_spec, err, last, calls, inp, out>>

\* ------------------------------------------------------------------ bounds

\* Number of calls made on one module.
MaxCalls == 2
\* Largest schema / argument list of the operand-resolution inputs.
MaxSchema == 2
\* Largest match handed to the dropout filter.
MaxMatch == 5
\* Largest graph handed to the overload canonicalisation.
MaxQdqNodes == 2
\* Most positional arguments of a call node of the literal-promotion graphs.
MaxLitArgs == 2

\* ------------------------------------------------ arguments of a node

\* An argument is a Node reference, None, a number, a string, or a nested
\* tuple/list of arguments.  All arguments share one record shape.
Ref(n) == [k |-> "node", ref |-> n, val |-> 0, items |-> <<>>]
NoneArg == [k |-> "none", ref |-> "", val |-> 0, items |-> <<>>]
IntArg(v) == [k |-> "int", ref |-> "", val |-> v, items |-> <<>>]
FloatArg(v) == [k |-> "float", ref |-> "", val |-> v, items |-> <<>>]
BoolArg(v) == [k |-> "bool", ref |-> "", val |-> v, items |-> <<>>]
StrArg(s) == [k |-> "str", ref |-> s, val |-> 0, items |-> <<>>]
TupleArg(xs) == [k |-> "tuple", ref |-> "", val |-> 0, items |-> xs]
ListArg(xs) == [k |-> "list", ref |-> "", val |-> 0, items |-> xs]

Kw(name, a) == [name |-> name, val |-> a]

MkNode(name, op, target, args, kwargs) ==
  [name |-> name, op |-> op, target |-> target, args |-> args, kwargs |-> kwargs]

\* ------------------------------------------------------ the fx graph

HasNode(g, name) == \E i \in 1..Len(g) : g[i].name = name

IndexOf(g, name) == CHOOSE i \in 1..Len(g) : g[i].name = name

NodeOf(g, name) == g[IndexOf(g, name)]

NodeNames(g) == { g[i].name : i \in 1..Len(g) }

RECURSIVE ArgRefs(_)
ArgRefs(a) ==
  IF a.k = "node" THEN {a.ref}
  ELSE UNION { ArgRefs(a.items[i]) : i \in 1..Len(a.items) }

NodeRefs(n) ==
  UNION ({ ArgRefs(n.args[i]) : i \in 1..Len(n.args) }
         \cup { ArgRefs(n.kwargs[i].val) : i \in 1..Len(n.kwargs) })

\* Node.users: the nodes holding a direct argument reference to the node.
Users(g, name) == { g[i].name : i \in { j \in 1..Len(g) : name \in NodeRefs(g[j]) } }

RECURSIVE ReplaceArg(_, _, _)
ReplaceArg(a, old, new) ==
  IF a.k = "node" THEN (IF a.ref = old THEN Ref(new) ELSE a)
  ELSE [a EXCEPT !.items = [i \in 1..Len(a.items) |-> ReplaceArg(a.items[i], old, new)]]

\* Node.replace_all_uses_with
replace_all_uses_with(g, old, new) ==
  [i \in 1..Len(g) |->
     [g[i] EXCEPT
        !.args = [p \in 1..Len(g[i].args) |-> ReplaceArg(g[i].args[p], old, new)],
        !.kwargs = [p \in 1..Len(g[i].kwargs) |->
                      Kw(g[i].kwargs[p].name, ReplaceArg(g[i].kwargs[p].val, old, new))]]]

\* Graph.inserting_before(anchor) followed by the creation of node n.
InsertBefore(g, anchor, n) ==
  LET i == IndexOf(g, anchor)
  IN SubSeq(g, 1, i - 1) \o <<n>> \o SubSeq(g, i, Len(g))

\* Graph.inserting_after(anchor) followed by the creation of node n;
\* inserting_after(None) is inserting_before(None): the end of the graph.
InsertAfter(g, anchor, n) ==
  IF anchor = "" THEN Append(g, n)
  ELSE LET i == IndexOf(g, anchor)
       IN SubSeq(g, 1, i) \o <<n>> \o SubSeq(g, i + 1, Len(g))

RemoveAt(g, i) == SubSeq(g, 1, i - 1) \o SubSeq(g, i + 1, Len(g))

\* Node.is_impure: placeholders and the output are never removed.
IsImpure(n) == n.op \in {"placeholder", "output"}

RECURSIVE DeadCodeFrom(_, _)
DeadCodeFrom(g, i) ==
  IF i < 1 THEN g
  ELSE IF ~IsImpure(g[i]) /\ Users(g, g[i].name) = {}
       THEN DeadCodeFrom(RemoveAt(g, i), i - 1)
       ELSE DeadCodeFrom(g, i - 1)

\* Graph.eliminate_dead_code: one reverse scan erasing user-less pure nodes.
eliminate_dead_code(g) == DeadCodeFrom(g, Len(g))

\* ------------------------------------------------------ tensor values

\* A tensor is one exact rational n/d (d > 0); an absent tensor (None) has d = 0.
NoneT == [n |-> 0, d |-> 0]

RECURSIVE Gcd(_, _)
Gcd(a, b) == IF b = 0 THEN a ELSE Gcd(b, a % b)

Abs(x) == IF x < 0 THEN -x ELSE x

Rat(n, d) ==
  LET g == Gcd(Abs(n), d) IN [n |-> n \div g, d |-> d \div g]

FromInt(i) == [n |-> i, d |-> 1]

RatAdd(a, b) == Rat(a.n * b.d + b.n * a.d, a.d * b.d)

RatSub(a, b) == Rat(a.n * b.d - b.n * a.d, a.d * b.d)

RatMul(a, b) == Rat(a.n * b.n, a.d * b.d)

\* Integer square root (exact on the perfect squares the inputs use).
ISqrt(x) == CHOOSE r \in 0..x : r * r <= x /\ (r + 1) * (r + 1) > x

\* torch.rsqrt on a positive rational.
Rsqrt(a) == Rat(ISqrt(a.d), ISqrt(a.n))

\* torch.nn.utils.fusion.fuse_conv_bn_weights.  transpose only selects the axis
\* the per-channel scale is broadcast along; a one-element tensor has one.
fuse_conv_bn_weights(conv_w, conv_b, bn_rm, bn_rv, bn_eps, bn_w, bn_b, transpose) ==
  LET cb == IF conv_b = NoneT THEN FromInt(0) ELSE conv_b
      bw == IF bn_w = NoneT THEN FromInt(1) ELSE bn_w
      bb == IF bn_b = NoneT THEN FromInt(0) ELSE bn_b
      bn_var_rsqrt == Rsqrt(RatAdd(bn_rv, FromInt(bn_eps)))
  IN [w |-> RatMul(conv_w, RatMul(bw, bn_var_rsqrt)),
      b |-> RatAdd(RatMul(RatMul(RatSub(cb, bn_rm), bn_var_rsqrt), bw), bb)]

\* setattr(m, name, value)
SetAttr(store, name, value) ==
  [x \in (DOMAIN store) \cup {name} |-> IF x = name THEN value ELSE store[x]]

\* --------------------------------------------------- operator targets

CONV == "aten.convolution.default"
BN_NO_TRAINING == "aten._native_batch_norm_legit_no_training.default"
BN_TRAINING == "aten._native_batch_norm_legit.default"
BN_OTHER == "aten.native_batch_norm.default"
GETITEM == "operator.getitem"
RELU == "aten.relu.default"
ADD == "aten.add.Tensor"

SchemaArg(name, kwarg_only, default_value) ==
  [name |-> name, kwarg_only |-> kwarg_only, default_value |-> default_value]

\* bn_node.target._schema.arguments: no argument has a default.
EvalBnSchema ==
  << SchemaArg("input", FALSE, NoneArg), SchemaArg("weight", FALSE, NoneArg),
     SchemaArg("bias", FALSE, NoneArg), SchemaArg("running_mean", FALSE, NoneArg),
     SchemaArg("running_var", FALSE, NoneArg), SchemaArg("momentum", FALSE, NoneArg),
     SchemaArg("eps", FALSE, NoneArg) >>

TrainBnSchema ==
  << SchemaArg("input", FALSE, NoneArg), SchemaArg("weight", FALSE, NoneArg),
     SchemaArg("bias", FALSE, NoneArg), SchemaArg("running_mean", FALSE, NoneArg),
     SchemaArg("running_var", FALSE, NoneArg), SchemaArg("training", FALSE, NoneArg),
     SchemaArg("momentum", FALSE, NoneArg), SchemaArg("eps", FALSE, NoneArg) >>

BnSchema(target) == IF target = BN_NO_TRAINING THEN EvalBnSchema ELSE TrainBnSchema

\* ------------------------------------------------ operand resolution

KwHas(kwargs, name) == \E i \in 1..Len(kwargs) : kwargs[i].name = name

KwGet(kwargs, name) == kwargs[CHOOSE i \in 1..Len(kwargs) : kwargs[i].name = name].val

\* Mutant: a positional argument at the index wins over the keyword.
_get_all_arguments_PositionalFirst(orig_args, orig_kwargs, args_schema) ==
  [i \in 1..Len(args_schema) |->
     IF ~args_schema[i].kwarg_only /\ i <= Len(orig_args) THEN orig_args[i]
     ELSE IF KwHas(orig_kwargs, args_schema[i].name)
          THEN KwGet(orig_kwargs, args_schema[i].name)
          ELSE args_schema[i].default_value]

\* _get_all_arguments (schema position i of the code is position i + 1 here)
_get_all_arguments(orig_args, orig_kwargs, args_schema) ==
  [i \in 1..Len(args_schema) |->
     IF KwHas(orig_kwargs, args_schema[i].name)
     THEN KwGet(orig_kwargs, args_schema[i].name)
     ELSE IF ~args_schema[i].kwarg_only /\ i <= Len(orig_args)
          THEN orig_args[i]
          ELSE args_schema[i].default_value]

\* ------------------------------------------------ conv + bn weight folding

\* _get_tensor_constant_from_node
_get_tensor_constant_from_node(node, g, store) ==
  IF node.k = "none" THEN NoneT ELSE store[NodeOf(g, node.ref).target]

\* Mutant: the eps index of the two variants is one too small.
EpsArgIndex_OffByOne(target) ==
  IF target = BN_NO_TRAINING THEN 5
  ELSE IF target = BN_TRAINING THEN 6
  ELSE -1

\* The eps index of the resolved bn arguments; -1 stands for the ValueError.
EpsArgIndex(target) ==
  IF target = BN_NO_TRAINING THEN 6
  ELSE IF target = BN_TRAINING THEN 7
  ELSE -1

\* Mutant: the new bias attribute is named without the weight's name.
BiasAttrName_Fixed(weight_attr_name) == "_bias"

\* The attribute name synthesised for a conv without bias.
BiasAttrName(weight_attr_name) == weight_attr_name \o "_bias"

\* Mutant: every getitem user of bn counts, whatever its index.
IsOutputZeroAccessor_AnyIndex(user) ==
  user.op = "call_function" /\ user.target = GETITEM

\* The negation of the loop's skip condition: a getitem call with index 0.
IsOutputZeroAccessor(user) ==
  /\ user.op = "call_function"
  /\ user.target = GETITEM
  /\ user.args[2].k \in {"int", "bool", "float"}
  /\ user.args[2].val = 0

\* bn_node.users, in graph order
UsersSeq(g, name) ==
  LET Uses(n) == name \in NodeRefs(n)
      us == SelectSeq(g, Uses)
  IN [i \in 1..Len(us) |-> us[i].name]

RECURSIVE RewireUsers(_, _, _)
\* for user in bn_node.users: ... user.replace_all_uses_with(conv_node)
RewireUsers(g, users, conv) ==
  IF users = <<>> THEN g
  ELSE IF ~IsOutputZeroAccessor(NodeOf(g, Head(users)))
       THEN RewireUsers(g, Tail(users), conv)
       ELSE RewireUsers(replace_all_uses_with(g, Head(users), conv), Tail(users), conv)

\* fold_bn_weights_into_conv_node on the module state st = [g, attrs, err];
\* conv_weight_node and bn are node names, conv_bias_node an argument
\* (a Node reference or None).
fold_bn_weights_into_conv_node(st, conv, conv_weight_node, conv_bias_node, bn) ==
  LET g == st.g
      conv_node == NodeOf(g, conv)
      bn_node == NodeOf(g, bn)
      conv_w == _get_tensor_constant_from_node(Ref(conv_weight_node), g, st.attrs)
      conv_b == _get_tensor_constant_from_node(conv_bias_node, g, st.attrs)
      transpose == conv_node.args[7]
      bn_args == _get_all_arguments(bn_node.args, bn_node.kwargs, BnSchema(bn_node.target))
      bn_w == _get_tensor_constant_from_node(bn_args[2], g, st.attrs)
      bn_b == _get_tensor_constant_from_node(bn_args[3], g, st.attrs)
      bn_rm == _get_tensor_constant_from_node(bn_args[4], g, st.attrs)
      bn_rv == _get_tensor_constant_from_node(bn_args[5], g, st.attrs)
      eps_arg_index == EpsArgIndex(bn_node.target)
  IN IF eps_arg_index = -1 THEN [st EXCEPT !.err = "ValueError"]
     ELSE
       LET bn_eps == bn_args[eps_arg_index + 1].val
           fused == fuse_conv_bn_weights(conv_w, conv_b, bn_rm, bn_rv, bn_eps,
                                      bn_w, bn_b, transpose)
           weight_attr_name == NodeOf(g, conv_weight_node).target
           attrs1 == SetAttr(st.attrs, weight_attr_name, fused.w)
           bias_attr_name ==
             IF conv_bias_node.k # "none" THEN NodeOf(g, conv_bias_node.ref).target
             ELSE BiasAttrName(weight_attr_name)
           get_bias_node == MkNode(bias_attr_name, "get_attr", bias_attr_name, <<>>, <<>>)
           g1 == IF conv_bias_node.k # "none" THEN g
                 ELSE InsertBefore(g, conv, get_bias_node)
           conv_args == IF conv_bias_node.k # "none" THEN conv_node.args
                        ELSE [conv_node.args EXCEPT ![3] = Ref(get_bias_node.name)]
           attrs2 == SetAttr(attrs1, bias_attr_name, fused.b)
           i == IndexOf(g1, conv)
           g2 == [g1 EXCEPT ![i] = [g1[i] EXCEPT !.args = conv_args]]
           g3 == RewireUsers(g2, UsersSeq(g2, bn), conv)
       IN [g |-> g3, attrs |-> attrs2, err |-> "none"]

RECURSIVE FuseLoop(_, _)
\* The scan of _fuse_conv_bn_ from position i of m.graph.nodes.  A fold
\* inserts before the conv node only, so the scan resumes after the bn
\* node it was at.
FuseLoop(st, i) ==
  IF st.err # "none" \/ i > Len(st.g) THEN st
  ELSE
    LET bn_node == st.g[i]
    IN IF bn_node.op # "call_function" \/ bn_node.target # BN_NO_TRAINING
       THEN FuseLoop(st, i + 1)
       ELSE
         LET n == NodeOf(st.g, bn_node.args[1].ref)
         IN IF n.op # "call_function" \/ n.target # CONV
            THEN FuseLoop(st, i + 1)
            ELSE
              LET st2 == fold_bn_weights_into_conv_node(st, n.name, n.args[2].ref,
                                                  n.args[3], bn_node.name)
              IN FuseLoop(st2, IndexOf(st2.g, bn_node.name) + 1)

\* Mutant: the pass ends without dead-code elimination.
_fuse_conv_bn_NoDeadCode(st) == FuseLoop(st, 1)

\* _fuse_conv_bn_: the scan, then eliminate_dead_code (recompile changes
\* neither the graph nor the stored attributes).
_fuse_conv_bn_(st) ==
  LET s == FuseLoop(st, 1)
  IN IF s.err # "none" THEN s ELSE [s EXCEPT !.g = eliminate_dead_code(s.g)]

\* ------------------------------------------- the fusion specification

\* The tail of a traced conv -> bn graph: whether a second-output accessor
\* exists, what the consumer of the first output reads, what the output
\* node returns (the consumer; with the second output; with the first
\* output; with the bn tuple itself), and whether the second output has a
\* user that nothing reads.
Tails ==
  { t \in [gi1 : BOOLEAN, consumer : {"relu", "add"},
           outs : {"c", "c_g1", "g0_c", "c_bn"}, dead : BOOLEAN] :
      t.gi1 \/ (t.consumer = "relu" /\ t.outs # "c_g1" /\ ~t.dead) }

\* The module traced from conv(x) followed by batch norm.
ConvBnGraph(hasBias, affine, bnTarget, byKeyword, feeds, tail, mom, eps) ==
  LET bnIn == IF feeds THEN Ref("conv") ELSE Ref("x")
      wArg == IF affine THEN Ref("bn_w") ELSE NoneArg
      bArg == IF affine THEN Ref("bn_b") ELSE NoneArg
      head == <<bnIn, wArg, bArg, Ref("bn_rm"), Ref("bn_rv")>>
                \o (IF bnTarget = BN_NO_TRAINING THEN <<>> ELSE <<BoolArg(1)>>)
      bnArgs == IF byKeyword THEN head ELSE head \o <<FloatArg(mom), FloatArg(eps)>>
      bnKw == IF byKeyword THEN <<Kw("eps", FloatArg(eps)), Kw("momentum", FloatArg(mom))>>
              ELSE <<>>
      consumer == IF tail.consumer = "relu"
                  THEN MkNode("relu", "call_function", RELU, <<Ref("getitem")>>, <<>>)
                  ELSE MkNode("add", "call_function", ADD,
                              <<Ref("getitem"), Ref("getitem_1")>>, <<>>)
      returned == IF tail.outs = "c" THEN <<Ref(consumer.name)>>
                  ELSE IF tail.outs = "c_g1" THEN <<Ref(consumer.name), Ref("getitem_1")>>
                  ELSE IF tail.outs = "c_bn" THEN <<Ref(consumer.name), Ref("bn")>>
                  ELSE <<Ref("getitem"), Ref(consumer.name)>>
  IN << MkNode("x", "placeholder", "x", <<>>, <<>>),
        MkNode("conv_w", "get_attr", "conv_w", <<>>, <<>>) >>
     \o (IF hasBias THEN <<MkNode("conv_b", "get_attr", "conv_b", <<>>, <<>>)>> ELSE <<>>)
     \o << MkNode("conv", "call_function", CONV,
                  << Ref("x"), Ref("conv_w"),
                     IF hasBias THEN Ref("conv_b") ELSE NoneArg,
                     ListArg(<<IntArg(1)>>), ListArg(<<IntArg(0)>>), ListArg(<<IntArg(1)>>),
                     BoolArg(0), ListArg(<<IntArg(0)>>), IntArg(1) >>, <<>>) >>
     \o (IF affine THEN << MkNode("bn_w", "get_attr", "bn_w", <<>>, <<>>),
                           MkNode("bn_b", "get_attr", "bn_b", <<>>, <<>>) >>
         ELSE <<>>)
     \o << MkNode("bn_rm", "get_attr", "bn_rm", <<>>, <<>>),
           MkNode("bn_rv", "get_attr", "bn_rv", <<>>, <<>>),
           MkNode("bn", "call_function", bnTarget, bnArgs, bnKw),
           MkNode("getitem", "call_function", GETITEM, <<Ref("bn"), IntArg(0)>>, <<>>) >>
     \o (IF tail.gi1
         THEN <<MkNode("getitem_1", "call_function", GETITEM, <<Ref("bn"), IntArg(1)>>, <<>>)>>
         ELSE <<>>)
     \o (IF tail.dead
         THEN <<MkNode("relu_1", "call_function", RELU, <<Ref("getitem_1")>>, <<>>)>>
         ELSE <<>>)
     \o << consumer,
           MkNode("output", "output", "output", <<TupleArg(returned)>>, <<>>) >>

\* The parameters stored on the module.
ConvBnAttrs(hasBias, affine, w, rm) ==
  [a \in {"conv_w", "bn_rm", "bn_rv"}
         \cup (IF hasBias THEN {"conv_b"} ELSE {})
         \cup (IF affine THEN {"bn_w", "bn_b"} ELSE {}) |->
     IF a = "conv_w" THEN FromInt(w)
     ELSE IF a = "conv_b" THEN FromInt(1)
     ELSE IF a = "bn_w" THEN FromInt(2)
     ELSE IF a = "bn_b" THEN FromInt(1)
     ELSE IF a = "bn_rm" THEN FromInt(rm)
     ELSE FromInt(1)]

Init ==
  /\ \E hasBias \in BOOLEAN, affine \in BOOLEAN, byKeyword \in BOOLEAN, feeds \in BOOLEAN,
        bnTarget \in {BN_NO_TRAINING, BN_TRAINING, BN_OTHER}, tail \in Tails,
        w \in {1, 3}, me \in {<<0, 3>>, <<3, 0>>} :
       /\ graph = ConvBnGraph(hasBias, affine, bnTarget, byKeyword, feeds, tail,
                              me[1], me[2])
       /\ attrs = ConvBnAttrs(hasBias, affine, w, 1)
  /\ in_spec = <<>>
  /\ err = "none"
  /\ last = "init"
  /\ calls = 0
  /\ inp = <<>>
  /\ out = <<>>

\* m's state as the functions take it.
Module == [g |-> graph, attrs |-> attrs, err |-> "none"]

\* A call of _fuse_conv_bn_(m).
FusePass ==
  /\ calls < MaxCalls
  /\ LET s == _fuse_conv_bn_(Module)
     IN graph' = s.g /\ attrs' = s.attrs /\ err' = s.err
  /\ last' = "fuse_pass"
  /\ calls' = calls + 1
  /\ UNCHANGED <<in_spec, inp, out>>

\* The bn nodes a caller can hand to fold_bn_weights_into_conv_node: a
\* batch-norm call whose input is a convolution call.
Foldable(g) ==
  { i \in 1..Len(g) :
      /\ g[i].op = "call_function"
      /\ g[i].target \in {BN_NO_TRAINING, BN_TRAINING, BN_OTHER}
      /\ NodeOf(g, g[i].args[1].ref).target = CONV }

\* A call of fold_bn_weights_into_conv_node(conv, conv.args[1], conv.args[2], bn, m).
Fold ==
  /\ calls < MaxCalls
  /\ \E i \in Foldable(graph) :
       LET conv_node == NodeOf(graph, graph[i].args[1].ref)
           s == fold_bn_weights_into_conv_node(Module, conv_node.name, conv_node.args[2].ref,
                                          conv_node.args[3], graph[i].name)
       IN graph' = s.g /\ attrs' = s.attrs /\ err' = s.err
  /\ last' = "fold"
  /\ calls' = calls + 1
  /\ UNCHANGED <<in_spec, inp, out>>

Next == FusePass \/ Fold

Spec == Init /\ [][Next]_vars

\* ---------------------------------------------- claims on the fusion

\* The getitem accessors of node bn in graph g, by name.
Accessors(g, bn) ==
  { g[i].name : i \in { j \in 1..Len(g) :
      g[j].op = "call_function" /\ g[j].target = GETITEM /\ g[j].args[1] = Ref(bn) } }

ZeroAccessors(g, bn) == { a \in Accessors(g, bn) : NodeOf(g, a).args[2].val = 0 }

OtherAccessors(g, bn) == Accessors(g, bn) \ ZeroAccessors(g, bn)

RECURSIVE Redirected(_, _, _)
\* Argument a with every reference to a node of olds turned into a
\* reference to new, position by position.
Redirected(a, olds, new) ==
  IF a.k = "node" THEN (IF a.ref \in olds THEN Ref(new) ELSE a)
  ELSE [a EXCEPT !.items = [i \in 1..Len(a.items) |-> Redirected(a.items[i], olds, new)]]

\* A step that is a call of fold_bn_weights_into_conv_node which returned.
FoldReturned == last' = "fold" /\ err' = "none"

\* Every prior reference to a getitem-0 accessor of bn is a reference to conv.
UsesRedirected(bn, conv) ==
  \A name \in NodeNames(graph) \ {conv} :
     /\ HasNode(graph', name)
     /\ NodeOf(graph', name).args =
          [p \in 1..Len(NodeOf(graph, name).args) |->
             Redirected(NodeOf(graph, name).args[p], ZeroAccessors(graph, bn), conv)]
     /\ NodeOf(graph', name).kwargs =
          [p \in 1..Len(NodeOf(graph, name).kwargs) |->
             Kw(NodeOf(graph, name).kwargs[p].name,
                Redirected(NodeOf(graph, name).kwargs[p].val, ZeroAccessors(graph, bn), conv))]

\* Every accessor of bn with an index other than 0 keeps arguments and users.
OtherAccessorsKept(bn) ==
  \A a \in OtherAccessors(graph, bn) :
     /\ NodeOf(graph', a) = NodeOf(graph, a)
     /\ Users(graph', a) = Users(graph, a)

\* C2 as stated: fold_bn_weights_into_conv_node redirects every user of a
\* getitem-0 accessor of bn to conv at the same argument position, and the
\* other accessors of bn and the users of those accessors are untouched
\* (same arguments, same users).
C2_AsStated ==
  [][FoldReturned =>
       \A b \in Foldable(graph) :
          LET bn == graph[b].name
              conv == graph[b].args[1].ref
          IN /\ UsesRedirected(bn, conv)
             /\ OtherAccessorsKept(bn)
             /\ \A a \in OtherAccessors(graph, bn) : \A u \in Users(graph, a) :
                   /\ NodeOf(graph', u) = NodeOf(graph, u)
                   /\ Users(graph', u) = Users(graph, u)]_vars

\* C2 amended: as C2, but a user of an other-index accessor keeps its users
\* and keeps its arguments only where they did not reference a getitem-0
\* accessor of bn (there it now references conv, like every other user).
C2_Rewiring ==
  [][FoldReturned =>
       \A b \in Foldable(graph) :
          LET bn == graph[b].name
              conv == graph[b].args[1].ref
          IN /\ UsesRedirected(bn, conv)
             /\ OtherAccessorsKept(bn)
             /\ \A a \in OtherAccessors(graph, bn) : \A u \in Users(graph, a) :
                   /\ Users(graph', u) = Users(graph, u)
                   /\ a \in NodeRefs(NodeOf(graph', u))
                   /\ (NodeRefs(NodeOf(graph, u)) \cap ZeroAccessors(graph, bn) = {}
                         => NodeOf(graph', u) = NodeOf(graph, u))]_vars

\* A fold has returned and left a node that reads both the conv node (in
\* place of the first output) and a second-output accessor of the bn node.
C2_Witness ==
  /\ last = "fold" /\ err = "none"
  /\ \E b \in Foldable(graph) : \E a \in OtherAccessors(graph, graph[b].name) :
        \E u \in Users(graph, a) :
           /\ graph[b].args[1].ref \in NodeRefs(NodeOf(graph, u))
           /\ \A z \in ZeroAccessors(graph, graph[b].name) : Users(graph, z) = {}

\* C1 as stated: a call of _fuse_conv_bn_ on a graph that the previous call
\* of _fuse_conv_bn_ has just processed changes no node, no argument list
\* and no stored parameter.
C1_Idempotent ==
  [][(last = "fuse_pass" /\ last' = "fuse_pass") =>
       (graph' = graph /\ attrs' = attrs)]_vars

\* The no-training bn calls that directly follow a convolution call.
Fusable(g) == { i \in Foldable(g) : g[i].target = BN_NO_TRAINING }

RECURSIVE Live(_, _)
\* Node name is read, directly or through its users, by a node that
\* dead-code elimination never removes.
Live(g, name) ==
  IsImpure(NodeOf(g, name)) \/ \E u \in Users(g, name) : Live(g, u)

\* Nothing reads the 2nd or 3rd output of bn: every user of bn is a
\* getitem accessor, and no accessor of an index other than 0 has a user.
OtherOutputsUnused(g, bn) ==
  /\ Users(g, bn) = Accessors(g, bn)
  /\ \A a \in OtherAccessors(g, bn) : Users(g, a) = {}

\* The pass left neither the bn call nor an accessor of it.
BnGone(bn) ==
  /\ ~HasNode(graph', bn)
  /\ \A i \in 1..Len(graph') : bn \notin NodeRefs(graph'[i])
  /\ \A i \in 1..Len(graph') : graph'[i].target # BN_NO_TRAINING

\* C3 as stated: after _fuse_conv_bn_ on a graph where a no-training bn
\* follows a conv, the bn call and its accessors are gone if the accessors
\* of the 2nd/3rd output have no users, and the bn node and the accessor
\* remain if such an accessor has a user.
C3_AsStated ==
  [][last' = "fuse_pass" =>
       \A b \in Fusable(graph) :
          LET bn == graph[b].name
          IN /\ OtherOutputsUnused(graph, bn) => BnGone(bn)
             /\ \A a \in OtherAccessors(graph, bn) :
                  Users(graph, a) # {} => (HasNode(graph', bn) /\ HasNode(graph', a))]_vars

\* C3 amended: the bn node and an accessor of its 2nd/3rd output remain if
\* that accessor has a user that dead-code elimination keeps (one read,
\* directly or through its own users, by the output).
C3_DeadCode ==
  [][last' = "fuse_pass" =>
       \A b \in Fusable(graph) :
          LET bn == graph[b].name
          IN /\ OtherOutputsUnused(graph, bn) => BnGone(bn)
             /\ \A a \in OtherAccessors(graph, bn) :
                  (\E u \in Users(graph, a) : Live(graph, u))
                    => (HasNode(graph', bn) /\ HasNode(graph', a)
                        /\ Ref(bn) = NodeOf(graph', a).args[1])]_vars

\* The pass has run on a conv -> bn graph and removed the bn call: the conv
\* reads the synthesised or existing bias and no batch norm is left.
C3_Witness ==
  /\ last = "fuse_pass" /\ calls = 1
  /\ \E i \in 1..Len(graph) : graph[i].target = CONV /\ graph[i].args[3].k = "node"
  /\ \A i \in 1..Len(graph) :
        graph[i].target \notin {BN_NO_TRAINING, BN_TRAINING, BN_OTHER, GETITEM}

\* The weight and bias fold_bn_weights_into_conv_node has to store for bn
\* node b of the graph, eps read at the given position of the resolved
\* arguments (position 7 is index 6 of the code).
FusedWith(b, epsPos) ==
  LET bn_node == graph[b]
      conv_node == NodeOf(graph, bn_node.args[1].ref)
      r == _get_all_arguments(bn_node.args, bn_node.kwargs, BnSchema(bn_node.target))
      T(a) == _get_tensor_constant_from_node(a, graph, attrs)
  IN fuse_conv_bn_weights(T(conv_node.args[2]), T(conv_node.args[3]), T(r[4]), T(r[5]),
                       r[epsPos].val, T(r[2]), T(r[3]), conv_node.args[7])

WeightName(b) == NodeOf(graph, NodeOf(graph, graph[b].args[1].ref).args[2].ref).target

\* C7: fold_bn_weights_into_conv_node reads eps at index 6 of the resolved
\* arguments for the no-training variant and at index 7 for the training
\* variant, and for any other target raises ValueError with the stored
\* parameters, the node arguments and the set of nodes unchanged.
C7_EpsIndex ==
  [][last' = "fold" =>
       \A b \in Foldable(graph) :
          /\ graph[b].target = BN_NO_TRAINING =>
               (err' = "none" /\ attrs'[WeightName(b)] = FusedWith(b, 7).w)
          /\ graph[b].target = BN_TRAINING =>
               (err' = "none" /\ attrs'[WeightName(b)] = FusedWith(b, 8).w)
          /\ graph[b].target \notin {BN_NO_TRAINING, BN_TRAINING} =>
               (err' = "ValueError" /\ graph' = graph /\ attrs' = attrs)]_vars

\* A fold was called on a bn node of an unexpected target and raised.
C7_Witness ==
  /\ last = "fold" /\ err = "ValueError"
  /\ \E b \in Foldable(graph) : graph[b].target = BN_OTHER

\* C8: a returning fold_bn_weights_into_conv_node on a conv without bias
\* creates one get_attr node targeting <weight name>_bias right before the
\* conv node, makes it the conv's 3rd argument and stores the fused bias
\* under that name; with a bias node it creates no node, keeps the conv's
\* arguments and stores the fused bias under the bias node's target; either
\* way the fused weight replaces the weight attribute.
C8_BiasNode ==
  [][FoldReturned =>
       \A b \in Foldable(graph) :
          LET conv == graph[b].args[1].ref
              conv_node == NodeOf(graph, conv)
              fused == FusedWith(b, IF graph[b].target = BN_NO_TRAINING THEN 7 ELSE 8)
              name == WeightName(b) \o "_bias"
          IN /\ attrs'[WeightName(b)] = fused.w
             /\ IF conv_node.args[3].k = "none"
                THEN /\ Len(graph') = Len(graph) + 1
                     /\ NodeNames(graph') \ NodeNames(graph) = {name}
                     /\ NodeNames(graph) \subseteq NodeNames(graph')
                     /\ NodeOf(graph', name).op = "get_attr"
                     /\ NodeOf(graph', name).target = name
                     /\ IndexOf(graph', name) + 1 = IndexOf(graph', conv)
                     /\ NodeOf(graph', conv).args = [conv_node.args EXCEPT ![3] = Ref(name)]
                     /\ attrs'[name] = fused.b
                     /\ DOMAIN attrs' = DOMAIN attrs \cup {name}
                ELSE /\ Len(graph') = Len(graph)
                     /\ NodeNames(graph') = NodeNames(graph)
                     /\ NodeOf(graph', conv).args = conv_node.args
                     /\ attrs'[NodeOf(graph, conv_node.args[3].ref).target] = fused.b
                     /\ DOMAIN attrs' = DOMAIN attrs]_vars

\* A fold has returned on a conv that had no bias: the get_attr node of
\* the synthesised bias sits right before the conv node that reads it.
C8_Witness ==
  /\ last = "fold" /\ err = "none" /\ calls = 1
  /\ \E i \in 2..Len(graph) :
        /\ graph[i].target = CONV
        /\ graph[i - 1].op = "get_attr"
        /\ graph[i - 1].target = NodeOf(graph, graph[i].args[2].ref).target \o "_bias"
        /\ graph[i].args[3] = Ref(graph[i - 1].name)
        /\ graph[i - 1].target \in DOMAIN attrs

\* ------------------------------- the operand-resolution specification

SeqsUpTo(S, n) == UNION { [1..k -> S] : k \in 0..n }

ArgNames == {"a", "b", "c"}

\* Schemas of at most MaxSchema arguments with distinct names.
Schemas ==
  { sc \in SeqsUpTo([name : ArgNames, kwarg_only : BOOLEAN,
                     default_value : {NoneArg, IntArg(9)}], MaxSchema) :
      \A i, j \in 1..Len(sc) : sc[i].name = sc[j].name => i = j }

\* Keyword arguments: a dict, kept as name/value pairs in key order.
KwargDicts ==
  { SelectSeq(<<Kw("a", IntArg(7)), Kw("b", IntArg(8)), Kw("c", StrArg("s"))>>,
              LAMBDA e : e.name \in ks) : ks \in SUBSET ArgNames }

InitArgs ==
  /\ inp \in [args : SeqsUpTo({IntArg(1), Ref("x")}, MaxSchema),
              kwargs : KwargDicts, schema : Schemas]
  /\ out = <<>>
  /\ graph = <<>>
  /\ attrs = <<>>
  /\ in_spec = <<>>
  /\ err = "none"
  /\ last = "init"
  /\ calls = 0

\* A call of _get_all_arguments(orig_args, orig_kwargs, args_schema).
Resolve ==
  /\ calls = 0
  /\ out' = _get_all_arguments(inp.args, inp.kwargs, inp.schema)
  /\ last' = "get_all_arguments"
  /\ calls' = 1
  /\ UNCHANGED <<graph, attrs, in_spec, err, inp>>

NextArgs == Resolve

SpecArgs == InitArgs /\ [][NextArgs]_vars

\* C4: the resolved list is as long as the schema, and entry i is the
\* keyword value when the schema name is a keyword (also when a positional
\* argument exists at i), else the positional argument at i when the entry
\* is not keyword-only and i is within the positional list, else the
\* declared default (None included); no call raises.
C4_Resolution ==
  last = "get_all_arguments" =>
    /\ err = "none"
    /\ Len(out) = Len(inp.schema)
    /\ \A i \in 1..Len(inp.schema) :
         LET e == inp.schema[i]
             given == { j \in 1..Len(inp.kwargs) : inp.kwargs[j].name = e.name }
         IN /\ \A j \in given : out[i] = inp.kwargs[j].val
            /\ (given = {} /\ ~e.kwarg_only /\ i <= Len(inp.args)) => out[i] = inp.args[i]
            /\ (given = {} /\ (e.kwarg_only \/ i > Len(inp.args))) => out[i] = e.default_value

\* A resolved call in which a keyword won over a positional argument at the
\* same index, another entry fell back to its absent (None) default, and a
\* keyword-only entry ignored the positional argument at its index.
C4_Witness ==
  /\ last = "get_all_arguments"
  /\ Len(inp.schema) = 2 /\ Len(inp.args) = 2
  /\ \E i \in 1..2 :
        /\ KwHas(inp.kwargs, inp.schema[i].name)
        /\ ~inp.schema[i].kwarg_only
        /\ out[i] # inp.args[i]
        /\ inp.schema[3 - i].kwarg_only
        /\ out[3 - i] = NoneArg

\* ------------------------------------ the dropout-filter specification

EMPTY_LIKE == "aten.empty_like.default"
BERNOULLI == "aten.bernoulli_.float"
DIV_SCALAR == "aten.div_.Scalar"
MUL_TENSOR == "aten.mul.Tensor"

\* ops_to_match of _is_dropout_filter
DropoutOps == {EMPTY_LIKE, BERNOULLI, DIV_SCALAR, MUL_TENSOR}

RECURSIVE OpsLeft(_, _)
\* The loop over match.nodes_map.values(): each target found is removed.
OpsLeft(targets, ops_to_match) ==
  IF targets = <<>> THEN ops_to_match
  ELSE OpsLeft(Tail(targets),
               IF Head(targets) \in ops_to_match THEN ops_to_match \ {Head(targets)}
               ELSE ops_to_match)

\* Mutant: the filter accepts as soon as the multiplication is matched.
_is_dropout_filter_MulOnly(targets) == MUL_TENSOR \notin OpsLeft(targets, DropoutOps)

\* _is_dropout_filter on the targets of the match's mapped nodes.
_is_dropout_filter(targets) == Cardinality(OpsLeft(targets, DropoutOps)) = 0

\* The targets a mapped node can have: the four of the pattern, another
\* operator, and a placeholder's name.
MatchTargets == DropoutOps \cup {ADD, "x"}

InitDropout ==
  /\ inp \in SeqsUpTo(MatchTargets, MaxMatch)
  /\ out = FALSE
  /\ graph = <<>>
  /\ attrs = <<>>
  /\ in_spec = <<>>
  /\ err = "none"
  /\ last = "init"
  /\ calls = 0

\* A call of _is_dropout_filter(match, original_graph, pattern_graph).
Filter ==
  /\ calls = 0
  /\ out' = _is_dropout_filter(inp)
  /\ last' = "is_dropout_filter"
  /\ calls' = 1
  /\ UNCHANGED <<graph, attrs, in_spec, err, inp>>

NextDropout == Filter

SpecDropout == InitDropout /\ [][NextDropout]_vars

\* C9: _is_dropout_filter accepts a match exactly when the targets of its
\* mapped nodes include all four dropout operators; other or repeated
\* targets change nothing.
C9_Filter ==
  last = "is_dropout_filter" =>
    (out <=> \A op \in {EMPTY_LIKE, BERNOULLI, DIV_SCALAR, MUL_TENSOR} :
                \E i \in 1..Len(inp) : inp[i] = op)

\* An accepted match that holds a fifth node besides the four operators.
C9_Witness ==
  /\ last = "is_dropout_filter" /\ out = TRUE
  /\ Len(inp) = 5
  /\ \E i \in 1..Len(inp) : inp[i] \notin DropoutOps

\* ------------------------------ the overload-removal specification

\* A target of the overload-removal graphs: an operator of a namespace with
\* its overload name; the overload packet itself has overload "".
Op(ns, op, overload) == [ns |-> ns, op |-> op, overload |-> overload]

QD == "quantized_decomposed"

\* _MAP of remove_tensor_overload_for_qdq_ops, key by key.
QdqMapKeys ==
  { Op(QD, "quantize_per_tensor", "default"), Op(QD, "dequantize_per_tensor", "default"),
    Op(QD, "quantize_per_tensor", "tensor"), Op(QD, "dequantize_per_tensor", "tensor"),
    Op(QD, "quantize_per_tensor", "tensor2"), Op(QD, "dequantize_per_tensor", "tensor2"),
    Op(QD, "quantize_per_channel", "default"), Op(QD, "dequantize_per_channel", "default"),
    Op("aten", "clamp", "Tensor") }

\* Mutant: the tensor2 overloads map to the tensor overloads.
_MAP_Tensor2(t) ==
  IF t.overload = "tensor2" THEN Op(t.ns, t.op, "tensor") ELSE Op(t.ns, t.op, "")

\* _MAP[target] for a key of the table.
_MAP(t) ==
  CASE t = Op(QD, "quantize_per_tensor", "default") -> Op(QD, "quantize_per_tensor", "")
    [] t = Op(QD, "dequantize_per_tensor", "default") -> Op(QD, "dequantize_per_tensor", "")
    [] t = Op(QD, "quantize_per_tensor", "tensor") -> Op(QD, "quantize_per_tensor", "")
    [] t = Op(QD, "dequantize_per_tensor", "tensor") -> Op(QD, "dequantize_per_tensor", "")
    [] t = Op(QD, "quantize_per_tensor", "tensor2") -> Op(QD, "quantize_per_tensor", "")
    [] t = Op(QD, "dequantize_per_tensor", "tensor2") -> Op(QD, "dequantize_per_tensor", "")
    [] t = Op(QD, "quantize_per_channel", "default") -> Op(QD, "quantize_per_channel", "")
    [] t = Op(QD, "dequantize_per_channel", "default") -> Op(QD, "dequantize_per_channel", "")
    [] t = Op("aten", "clamp", "Tensor") -> Op("aten", "clamp", "")

\* remove_tensor_overload_for_qdq_ops
remove_tensor_overload_for_qdq_ops(g) ==
  [i \in 1..Len(g) |->
     IF g[i].op # "call_function" THEN g[i]
     ELSE IF g[i].target \in QdqMapKeys THEN [g[i] EXCEPT !.target = _MAP(g[i].target)]
          ELSE g[i]]

\* The call targets of the graphs: the table's keys, their overload
\* packets, and operators outside the table.
QdqTargets ==
  QdqMapKeys \cup { Op(t.ns, t.op, "") : t \in QdqMapKeys }
    \cup { Op("aten", "clamp", "default"), Op("aten", "add", "Tensor"),
           Op(QD, "quantize_per_channel", "tensor") }

\* The nodes position i of a graph can hold; a node reads its predecessor.
QdqNodes(i) ==
  LET name == IF i = 1 THEN "n1" ELSE IF i = 2 THEN "n2" ELSE IF i = 3 THEN "n3" ELSE "n4"
      prev == IF i = 2 THEN "n1" ELSE IF i = 3 THEN "n2" ELSE "n3"
      args == IF i = 1 THEN <<>> ELSE <<Ref(prev), IntArg(0)>>
  IN { MkNode(name, "call_function", t, args, <<>>) : t \in QdqTargets }
       \cup { MkNode(name, "placeholder", Op("", "x", ""), <<>>, <<>>),
              MkNode(name, "output", Op("", "output", ""), args, <<>>) }

InitQdq ==
  /\ \E k \in 0..MaxQdqNodes :
        /\ graph \in [1..k -> UNION { QdqNodes(i) : i \in 1..k }]
        /\ \A i \in 1..k : graph[i] \in QdqNodes(i)
  /\ attrs = <<>>
  /\ in_spec = <<>>
  /\ err = "none"
  /\ last = "init"
  /\ calls = 0
  /\ inp = graph
  /\ out = <<>>

\* A call of remove_tensor_overload_for_qdq_ops(match_pattern).
RemoveOverloads ==
  /\ calls < MaxCalls
  /\ graph' = remove_tensor_overload_for_qdq_ops(graph)
  /\ last' = "remove_tensor_overload"
  /\ calls' = calls + 1
  /\ UNCHANGED <<attrs, in_spec, err, inp, out>>

NextQdq == RemoveOverloads

SpecQdq == InitQdq /\ [][NextQdq]_vars

\* C10: remove_tensor_overload_for_qdq_ops gives every call_function node
\* whose target is one of the nine overloads of the table the overload-free
\* target, leaves every other node, all arguments and the node order as
\* they were, and changes nothing when applied again.
C10_Canonical ==
  [][last' = "remove_tensor_overload" =>
       /\ Len(graph') = Len(graph)
       /\ \A i \in 1..Len(graph) :
            /\ graph'[i].name = graph[i].name
            /\ graph'[i].op = graph[i].op
            /\ graph'[i].args = graph[i].args
            /\ graph'[i].kwargs = graph[i].kwargs
            /\ graph'[i].target =
                 IF /\ graph[i].op = "call_function"
                    /\ graph[i].target.overload # ""
                    /\ \/ /\ graph[i].target.ns = QD
                          /\ graph[i].target.op \in {"quantize_per_tensor", "dequantize_per_tensor"}
                          /\ graph[i].target.overload \in {"default", "tensor", "tensor2"}
                       \/ /\ graph[i].target.ns = QD
                          /\ graph[i].target.op \in {"quantize_per_channel", "dequantize_per_channel"}
                          /\ graph[i].target.overload = "default"
                       \/ graph[i].target = Op("aten", "clamp", "Tensor")
                 THEN [graph[i].target EXCEPT !.overload = ""]
                 ELSE graph[i].target
       /\ last = "remove_tensor_overload" => graph' = graph]_vars

\* The pass has run twice on a graph (inp) that held a tensor2 overload
\* and an operator outside the table.
C10_Witness ==
  /\ last = "remove_tensor_overload" /\ calls = 2
  /\ \E i, j \in 1..Len(graph) :
        /\ inp[i].target = Op(QD, "dequantize_per_tensor", "tensor2")
        /\ graph[i].target = Op(QD, "dequantize_per_tensor", "")
        /\ graph[j].target = Op("aten", "clamp", "default")

\* ------------------------------ the literal-promotion specification

Digit(n) ==
  CASE n = 0 -> "0" [] n = 1 -> "1" [] n = 2 -> "2" [] n = 3 -> "3" [] n = 4 -> "4"
    [] n = 5 -> "5" [] n = 6 -> "6" [] n = 7 -> "7" [] n = 8 -> "8" [] n = 9 -> "9"

RECURSIVE Str(_)
\* str(cnt)
Str(n) == IF n < 10 THEN Digit(n) ELSE Str(n \div 10) \o Digit(n % 10)

\* Mutant: only plain numbers are literals, tuples and lists are not.
_is_literal_NumbersOnly(arg) == arg.k \in {"int", "float", "bool"}

RECURSIVE _is_literal(_)
\* _is_literal (a bool is an int)
_is_literal(arg) ==
  IF arg.k \in {"int", "float", "bool"} THEN TRUE
  ELSE IF arg.k \in {"tuple", "list"}
       THEN \A i \in 1..Len(arg.items) : _is_literal(arg.items[i])
       ELSE FALSE

RECURSIVE PromoteArgs(_, _, _, _)
\* The loop over node.args of the node named name, from argument p on:
\* st = [g, in_spec, last_ph, cnt], new_args the arguments built so far.
PromoteArgs(st, name, p, new_args) ==
  LET node == NodeOf(st.g, name)
  IN IF p > Len(node.args)
     THEN [st EXCEPT !.g = [st.g EXCEPT ![IndexOf(st.g, name)] =
                              [node EXCEPT !.args = new_args]]]
     ELSE IF _is_literal(node.args[p])
          THEN LET ph == "arg" \o Str(st.cnt)
                   st2 == [st EXCEPT
                             !.g = InsertAfter(st.g, st.last_ph,
                                               MkNode(ph, "placeholder", ph, <<>>, <<>>)),
                             !.in_spec = Append(st.in_spec, "LeafSpec"),
                             !.cnt = st.cnt + 1]
               IN PromoteArgs(st2, name, p + 1, Append(new_args, Ref(ph)))
          ELSE PromoteArgs(st, name, p + 1, Append(new_args, node.args[p]))

RECURSIVE PromoteFrom(_, _)
\* The loop over gm.graph.nodes from position i; the scan resumes after
\* the node it was at, wherever the new placeholders went.
PromoteFrom(st, i) ==
  IF i > Len(st.g) THEN st
  ELSE IF st.g[i].op = "placeholder"
       THEN PromoteFrom([st EXCEPT !.last_ph = st.g[i].name, !.cnt = st.cnt + 1], i + 1)
       ELSE LET st2 == PromoteArgs(st, st.g[i].name, 1, <<>>)
            IN PromoteFrom(st2, IndexOf(st2.g, st.g[i].name) + 1)

\* _replace_literals_with_placeholders on gm = [g, in_spec]
_replace_literals_with_placeholders(gm) ==
  LET st == PromoteFrom([g |-> gm.g, in_spec |-> gm.in_spec, last_ph |-> "", cnt |-> 0], 1)
  IN [g |-> st.g, in_spec |-> st.in_spec]

\* The positional arguments of the call nodes of the graphs.
LitArgs ==
  { Ref("w"), NoneArg, IntArg(3), FloatArg(2),
    TupleArg(<<IntArg(1), IntArg(2)>>),
    ListArg(<<IntArg(1), TupleArg(<<>>)>>),
    TupleArg(<<Ref("w"), IntArg(1)>>) }

\* An exported graph of nph inputs: add(*args1) then mul(add, arg2).
LitGraph(nph, args1, arg2) ==
  SubSeq(<< MkNode("arg0", "placeholder", "arg0", <<>>, <<>>),
            MkNode("arg1", "placeholder", "arg1", <<>>, <<>>) >>, 1, nph)
  \o << MkNode("w", "get_attr", "w", <<>>, <<>>),
        MkNode("add", "call_function", ADD, args1, <<>>),
        MkNode("mul", "call_function", MUL_TENSOR, <<Ref("add"), arg2>>, <<>>),
        MkNode("output", "output", "output", <<TupleArg(<<Ref("mul")>>)>>, <<>>) >>

InitLit ==
  /\ \E nph \in 0..2, args1 \in SeqsUpTo(LitArgs, MaxLitArgs), arg2 \in LitArgs :
        /\ graph = LitGraph(nph, args1, arg2)
        /\ in_spec = [i \in 1..nph |-> "LeafSpec"]
  /\ inp = graph
  /\ attrs = <<>>
  /\ err = "none"
  /\ last = "init"
  /\ calls = 0
  /\ out = <<>>

\* A call of _replace_literals_with_placeholders(gm).
ReplaceLiterals ==
  /\ calls < MaxCalls
  /\ LET r == _replace_literals_with_placeholders([g |-> graph, in_spec |-> in_spec])
     IN graph' = r.g /\ in_spec' = r.in_spec
  /\ last' = "replace_literals"
  /\ calls' = calls + 1
  /\ UNCHANGED <<attrs, err, inp, out>>

NextLit == ReplaceLiterals

SpecLit == InitLit /\ [][NextLit]_vars

\* ----------------------------------- claims on the literal promotion

RECURSIVE Numeric(_)
\* A number, or a nested tuple/list made only of numbers.
Numeric(a) ==
  \/ a.k \in {"int", "float", "bool"}
  \/ a.k \in {"tuple", "list"} /\ \A i \in 1..Len(a.items) : Numeric(a.items[i])

\* The literal argument positions <<node, p>> of one node, left to right.
NodeLits(n) ==
  SelectSeq([p \in 1..Len(n.args) |-> <<n.name, p>>], LAMBDA e : Numeric(n.args[e[2]]))

RECURSIVE LitsFrom(_, _)
\* The literal positions of the non-placeholder nodes, in graph order.
LitsFrom(g, i) ==
  IF i > Len(g) THEN <<>>
  ELSE (IF g[i].op = "placeholder" THEN <<>> ELSE NodeLits(g[i])) \o LitsFrom(g, i + 1)

Placeholders(g) == { i \in 1..Len(g) : g[i].op = "placeholder" }

LastPlaceholder(g) == CHOOSE i \in Placeholders(g) : \A j \in Placeholders(g) : j <= i

\* C5 as stated: the placeholder of the k-th literal met (nodes in graph
\* order, arguments left to right) is the k-th node after the last original
\* placeholder, which is also the order the leaf slots were appended in.
C5_Order ==
  [][(last' = "replace_literals" /\ Placeholders(graph) # {}) =>
       LET lits == LitsFrom(graph, 1)
       IN /\ Len(in_spec') = Len(in_spec) + Len(lits)
          /\ \A k \in 1..Len(lits) :
               LET a == NodeOf(graph', lits[k][1]).args[lits[k][2]]
               IN /\ a.k = "node"
                  /\ HasNode(graph', a.ref)
                  /\ IndexOf(graph', a.ref) = LastPlaceholder(graph) + k]_vars

\* C6: after _replace_literals_with_placeholders every literal positional
\* argument of a non-placeholder node is a reference to a new placeholder of
\* its own at the same index, every other argument is unchanged, there are
\* as many new placeholders and new leaf slots as literal arguments, and no
\* non-placeholder node keeps a literal argument.
C6_Promotion ==
  [][last' = "replace_literals" =>
       LET lits == LitsFrom(graph, 1)
           new == NodeNames(graph') \ NodeNames(graph)
           refOf(k) == NodeOf(graph', lits[k][1]).args[lits[k][2]]
       IN /\ NodeNames(graph) \subseteq NodeNames(graph')
          /\ Len(graph') = Len(graph) + Len(lits)
          /\ Cardinality(new) = Len(lits)
          /\ \A n \in new : NodeOf(graph', n).op = "placeholder"
          /\ in_spec' = in_spec \o [k \in 1..Len(lits) |-> "LeafSpec"]
          /\ \A k \in 1..Len(lits) : refOf(k).k = "node" /\ refOf(k).ref \in new
          /\ \A k, m \in 1..Len(lits) : refOf(k) = refOf(m) => k = m
          /\ \A i \in 1..Len(graph) :
               LET before == graph[i]
                   after == NodeOf(graph', before.name)
               IN /\ after.op = before.op /\ after.target = before.target
                  /\ after.kwargs = before.kwargs
                  /\ Len(after.args) = Len(before.args)
                  /\ \A p \in 1..Len(before.args) :
                       ~Numeric(before.args[p]) => after.args[p] = before.args[p]
          /\ \A i \in 1..Len(graph') :
               graph'[i].op # "placeholder" =>
                  \A p \in 1..Len(graph'[i].args) : ~Numeric(graph'[i].args[p])]_vars

\* A promoted graph whose add node reads two new placeholders, one of them
\* in place of a tuple literal of the graph handed in (inp).
C6_Witness ==
  /\ last = "replace_literals" /\ calls = 1
  /\ HasNode(graph, "add")
  /\ LET before == NodeOf(inp, "add")
         after == NodeOf(graph, "add")
     IN /\ Len(before.args) = 2
        /\ before.args[1].k = "int" /\ before.args[2].k = "tuple"
        /\ Numeric(before.args[2])
        /\ \A p \in 1..2 : after.args[p].k = "node"
                           /\ NodeOf(graph, after.args[p].ref).op = "placeholder"
        /\ after.args[1] # after.args[2]
  /\ Len(in_spec) = Cardinality(Placeholders(graph))

====
